---- MODULE Spec2Model ----
(***************************************************************************)
(* Model of the unified multi-provider upload coordinator                  *)
(* (bots/bot_controller/unified_storage_manager.py) and of the Blob        *)
(* uploader it drives (bots/bot_controller/azure_file_uploader.py).        *)
(*                                                                         *)
(* Python values are modelled as follows.                                  *)
(*   Optional[str]  a set: {} is None, {s} is the string s. "" is the      *)
(*                  empty string, so bool(x) is x # {} /\ x # {""}.        *)
(*   the mode       a sequence of one-character strings, so that lower()   *)
(*                  is computed character by character.                    *)
(*   a thread       a position (pc) of _upload_worker.                     *)
(*   a URL          the sequence of its parts: the account URL, "/", the   *)
(*                  container, "/", the blob name.                         *)
(*                                                                         *)
(* One run uses one local file path and one callback: the caller passes    *)
(* the same callback (none, one that returns, one that raises) to every    *)
(* upload_file call. successful_uploads and failed_uploads are the lists   *)
(* of the closure of each upload_file call, so they are kept per call.     *)
(* waited and lastOp are history of the caller's thread: what the          *)
(* wait_for_uploads in progress has waited on (cleared by the caller's     *)
(* next operation) and which operation ended last.                         *)
(***************************************************************************)
EXTENDS Integers, Sequences, FiniteSets, TLC

VARIABLES
    uploadMode,          \* os.environ: STORAGE_UPLOAD_MODE (Optional char sequence)
    env,                 \* os.environ: the other settings, name -> Optional[str]
    AZURE_AVAILABLE,     \* azure_file_uploader.AZURE_AVAILABLE
    file_key,            \* UnifiedStorageManager.file_key (the constructor's argument)
    fileExists,          \* the local file at file_path is on disk
    pc,                  \* the caller's thread: "new", "idle", "uploading", "waiting";
                         \* "direct" for a caller of the Blob uploader alone
    storage_configs,     \* UnifiedStorageManager.storage_configs
    upload_threads,      \* UnifiedStorageManager.upload_threads (uploader handles)
    azure_uploader,      \* UnifiedStorageManager.azure_uploader (Optional handle)
    uploaders,           \* handle -> the uploader object and its background thread
    nCalls,              \* number of upload_file calls made so far
    loopIdx,             \* upload_file: index of the config the for loop is at
    callbackKind,        \* the callback the caller passes: "none", "ok", "raises"
    successful_uploads,  \* call -> the closure's successful_uploads list
    failed_uploads,      \* call -> the closure's failed_uploads list
    callbackCalls,       \* call -> number of invocations of the caller's callback
    waitIdx,             \* wait_for_uploads: index the for loop is at
    waited,              \* handles the wait_for_uploads in progress or just
                         \* returned has waited on
    lastOp               \* the last operation of the caller's thread that ended

vars == <<uploadMode, env, AZURE_AVAILABLE, file_key, fileExists, pc, storage_configs,
          upload_threads, azure_uploader, uploaders, nCalls, loopIdx,
          callbackKind, successful_uploads, failed_uploads, callbackCalls,
          waitIdx, waited, lastOp>>

envVars == <<uploadMode, env, AZURE_AVAILABLE, file_key>>

\* Bound: number of upload_file calls made on one coordinator.
MaxCalls == 2

Calls == 1..MaxCalls

----------------------------------------------------------------------------
\* Python values

None == {}

Some(v) == {v}

\* bool(x) of an Optional[str]
Truthy(o) == o # {} /\ o # {""}

Value(o) == CHOOSE v \in o : TRUE

UpperChars == <<"A","B","C","D","E","F","G","H","I","J","K","L","M",
                "N","O","P","Q","R","S","T","U","V","W","X","Y","Z">>

LowerChars == <<"a","b","c","d","e","f","g","h","i","j","k","l","m",
                "n","o","p","q","r","s","t","u","v","w","x","y","z">>

LowerChar(c) ==
    IF \E i \in DOMAIN UpperChars : UpperChars[i] = c
    THEN LowerChars[CHOOSE i \in DOMAIN UpperChars : UpperChars[i] = c]
    ELSE c

\* Mutant: the mode is compared without lower()
Lower_NoFold(s) == s

\* str.lower()
Lower(s) == [i \in DOMAIN s |-> LowerChar(s[i])]

\* os.getenv(name): None when unset
Getenv(name) == env[name]

\* os.getenv("STORAGE_UPLOAD_MODE", "s3")
GetenvMode == IF uploadMode = None THEN <<"s","3">> ELSE Value(uploadMode)

----------------------------------------------------------------------------
\* StorageProvider, StorageConfig

AWS_S3 == "s3"

AZURE_BLOB == "azure"

StorageConfig(provider, config) == [provider |-> provider, config |-> config]

\* StorageConfig.validate
validate(sc) ==
    IF sc.provider = AWS_S3 THEN Truthy(sc.config.bucket)
    ELSE IF sc.provider = AZURE_BLOB THEN Truthy(sc.config.container_name)
    ELSE FALSE

----------------------------------------------------------------------------
\* Storage configuration loader

\* Mutant: any value that is not "azure" falls back to S3
_should_use_aws_Fallback ==
    LET upload_mode == Lower(GetenvMode)
    IN  upload_mode # <<"a","z","u","r","e">>

_should_use_aws ==
    LET upload_mode == Lower(GetenvMode)
    IN  upload_mode \in {<<"s","3">>, <<"b","o","t","h">>, <<"a","l","l">>}

_should_use_azure ==
    LET upload_mode == Lower(GetenvMode)
    IN  /\ upload_mode \in {<<"a","z","u","r","e">>, <<"b","o","t","h">>, <<"a","l","l">>}
        /\ AZURE_AVAILABLE

\* Mutant: the credentials are required as well
_get_aws_config_NeedsCredentials ==
    LET bucket == Getenv("AWS_RECORDING_STORAGE_BUCKET_NAME")
    IN  IF ~Truthy(bucket) \/ ~Truthy(Getenv("AWS_ACCESS_KEY_ID")) THEN None
        ELSE Some([bucket            |-> bucket,
                   endpoint_url      |-> Getenv("AWS_ENDPOINT_URL"),
                   region_name       |-> Getenv("AWS_DEFAULT_REGION"),
                   access_key_id     |-> Getenv("AWS_ACCESS_KEY_ID"),
                   secret_access_key |-> Getenv("AWS_SECRET_ACCESS_KEY")])

\* Optional dict: {} is None
_get_aws_config ==
    LET bucket == Getenv("AWS_RECORDING_STORAGE_BUCKET_NAME")
    IN  IF ~Truthy(bucket) THEN None
        ELSE Some([bucket            |-> bucket,
                   endpoint_url      |-> Getenv("AWS_ENDPOINT_URL"),
                   region_name       |-> Getenv("AWS_DEFAULT_REGION"),
                   access_key_id     |-> Getenv("AWS_ACCESS_KEY_ID"),
                   secret_access_key |-> Getenv("AWS_SECRET_ACCESS_KEY")])

\* Mutant: the check for an authentication method is left out
_get_azure_config_NoAuthCheck ==
    LET container_name == Getenv("AZURE_STORAGE_CONTAINER_NAME")
        config == [container_name       |-> container_name,
                   storage_account_name |-> Getenv("AZURE_STORAGE_ACCOUNT_NAME"),
                   connection_string    |-> Getenv("AZURE_STORAGE_CONNECTION_STRING"),
                   account_key          |-> Getenv("AZURE_STORAGE_ACCOUNT_KEY")]
    IN  IF ~Truthy(container_name) THEN None ELSE Some(config)

_get_azure_config ==
    LET container_name == Getenv("AZURE_STORAGE_CONTAINER_NAME")
        config == [container_name       |-> container_name,
                   storage_account_name |-> Getenv("AZURE_STORAGE_ACCOUNT_NAME"),
                   connection_string    |-> Getenv("AZURE_STORAGE_CONNECTION_STRING"),
                   account_key          |-> Getenv("AZURE_STORAGE_ACCOUNT_KEY")]
    IN  IF ~Truthy(container_name) THEN None
        ELSE IF ~(\/ Truthy(config.storage_account_name)
                  \/ Truthy(config.connection_string)
                  \/ Truthy(config.account_key)) THEN None
        ELSE Some(config)

\* Mutant: the Blob config is appended before the S3 config
_load_storage_configs_AzureFirst ==
    LET s3_config == _get_aws_config
        azure_config == _get_azure_config
        s3 == IF _should_use_aws /\ s3_config # None
              THEN <<StorageConfig(AWS_S3, Value(s3_config))>> ELSE <<>>
        azure == IF _should_use_azure /\ azure_config # None
                 THEN <<StorageConfig(AZURE_BLOB, Value(azure_config))>> ELSE <<>>
    IN  SelectSeq(azure \o s3, validate)

_load_storage_configs ==
    LET s3_config == _get_aws_config
        azure_config == _get_azure_config
        s3 == IF _should_use_aws /\ s3_config # None
              THEN <<StorageConfig(AWS_S3, Value(s3_config))>> ELSE <<>>
        azure == IF _should_use_azure /\ azure_config # None
                 THEN <<StorageConfig(AZURE_BLOB, Value(azure_config))>> ELSE <<>>
    IN  SelectSeq(s3 \o azure, validate)

\* UnifiedStorageManager.has_storage_configured
has_storage_configured == Len(storage_configs) > 0

\* UnifiedStorageManager.configured_providers
configured_providers == [i \in DOMAIN storage_configs |-> storage_configs[i].provider]

----------------------------------------------------------------------------
\* Uploader handles and their background threads

Providers == {AWS_S3, AZURE_BLOB}

\* One uploader per upload_file call and provider: <<call, provider>>
Handles == Calls \X Providers

CallbackKinds == {"none", "ok", "raises"}

\* Positions of an uploader:
\*   "absent"      not constructed
\*   "ctor_failed" the constructor raised
\*   "run"         thread started, before Path.exists() and the write
\*   "cb_true"     before callback(True)
\*   "cb_false"    in an except clause, before callback(False)
\*   "done"        _upload_worker returned
\*   "died"        an exception left _upload_worker
\* and fault is the exception being handled while in an except clause:
\*   "file_not_found", "blob_client_error", "write_failed", "callback_raised",
\*   else "none"
AlivePcs == {"run", "cb_true", "cb_false"}

\* Thread.is_alive()
is_alive(h) == uploaders[h].pc \in AlivePcs

\* The thread of h was started at some point
Started(h) == uploaders[h].pc \in AlivePcs \cup {"done", "died"}

\* The provider label the wrapped callback passes on
s3_callback == "AWS S3"

azure_callback == "Azure Blob Storage"

ProviderLabel(provider) == IF provider = AWS_S3 THEN s3_callback ELSE azure_callback

\* Mutant: the account key is looked at before the connection string
AuthStrategy_KeyFirst(storage_account_name, connection_string, account_key) ==
    IF Truthy(storage_account_name) /\ ~Truthy(connection_string) /\ ~Truthy(account_key)
    THEN "managed_identity"
    ELSE IF Truthy(storage_account_name) /\ Truthy(account_key) THEN "account_key"
    ELSE IF Truthy(connection_string) THEN "connection_string"
    ELSE "ValueError"

\* AzureFileUploader._initialize_blob_service_client: the branch taken
AuthStrategy(storage_account_name, connection_string, account_key) ==
    IF Truthy(storage_account_name) /\ ~Truthy(connection_string) /\ ~Truthy(account_key)
    THEN "managed_identity"
    ELSE IF Truthy(connection_string) THEN "connection_string"
    ELSE IF Truthy(storage_account_name) /\ Truthy(account_key) THEN "account_key"
    ELSE "ValueError"

\* How AzureFileUploader(...) can end: without the SDK it raises ImportError,
\* the ValueError branch always raises; on the other branches the SDK's
\* constructors (DefaultAzureCredential, BlobServiceClient,
\* from_connection_string) return or raise. Thread.start() is taken not to fail.
AzureStartOutcomes(config) ==
    IF ~AZURE_AVAILABLE THEN {"ctor_raises"}
    ELSE IF AuthStrategy(config.storage_account_name, config.connection_string,
                    config.account_key) = "ValueError"
    THEN {"ctor_raises"}
    ELSE {"started", "ctor_raises"}

\* FileUploader(...) (the S3 uploader) returns or raises
S3StartOutcomes(config) == {"started", "ctor_raises"}

StartOutcomes(sc) ==
    IF sc.provider = AZURE_BLOB THEN AzureStartOutcomes(sc.config)
    ELSE S3StartOutcomes(sc.config)

----------------------------------------------------------------------------
\* The Blob uploader object: its fields and the URL of its blob. Every Blob
\* uploader of one coordinator is constructed from the same Blob config and the
\* same file key.

\* config.config of the Blob StorageConfig, as _upload_to_azure reads it
AzureConfig ==
    storage_configs[CHOOSE i \in DOMAIN storage_configs :
                        storage_configs[i].provider = AZURE_BLOB].config

\* AzureFileUploader.container_name
container_name == Value(AzureConfig.container_name)

\* AzureFileUploader.blob_name
blob_name == file_key

\* The account URL the BlobServiceClient was constructed with: formatted from
\* the account name, or taken from the connection string
account_url ==
    IF AuthStrategy(AzureConfig.storage_account_name, AzureConfig.connection_string,
                    AzureConfig.account_key) = "connection_string"
    THEN <<"BlobEndpoint of ", Value(AzureConfig.connection_string)>>
    ELSE <<"https://", Value(AzureConfig.storage_account_name),
           ".blob.core.windows.net">>

\* blob_service_client.get_blob_client(container=..., blob=...) constructs a
\* client locally; it raises ValueError when either name is empty
get_blob_client_raises(container, blob) == container = "" \/ blob = ""

\* Mutant: the URL of the container, without the blob name
get_blob_url_ContainerOnly == account_url \o <<"/", container_name>>

\* AzureFileUploader.get_blob_url (when get_blob_client returns): the url of
\* the blob client, account URL / container / blob
get_blob_url == account_url \o <<"/", container_name, "/", blob_name>>

\* Mutant: the uploader of an earlier upload_file call is not used
get_azure_blob_url_LastCallOnly ==
    IF azure_uploader # None /\ Value(azure_uploader)[1] = nCalls
    THEN IF get_blob_client_raises(container_name, blob_name) THEN None
         ELSE Some(get_blob_url)
    ELSE None

\* UnifiedStorageManager.get_azure_blob_url: Optional URL
get_azure_blob_url ==
    IF azure_uploader # None
    THEN IF get_blob_client_raises(container_name, blob_name) THEN None
         ELSE Some(get_blob_url)
    ELSE None

----------------------------------------------------------------------------
\* upload_callback, the aggregation callback closed over one upload_file call

upload_callback(k, provider_name, success) ==
    /\ IF success
       THEN /\ successful_uploads' =
                   [successful_uploads EXCEPT ![k] = Append(@, provider_name)]
            /\ UNCHANGED failed_uploads
       ELSE /\ failed_uploads' = [failed_uploads EXCEPT ![k] = Append(@, provider_name)]
            /\ UNCHANGED successful_uploads
    /\ callbackCalls' = [callbackCalls EXCEPT
                            ![k] = IF callbackKind # "none" THEN @ + 1 ELSE @]

\* upload_callback raises iff the caller's callback does
upload_callback_raises(k) == callbackKind = "raises"

----------------------------------------------------------------------------
\* The caller's thread

\* UnifiedStorageManager.__init__
Construct ==
    /\ pc = "new"
    /\ storage_configs' = _load_storage_configs
    /\ upload_threads' = <<>>
    /\ azure_uploader' = None
    /\ pc' = "idle"
    /\ lastOp' = "__init__"
    /\ UNCHANGED <<envVars, fileExists, uploaders, nCalls, loopIdx, callbackKind,
                   successful_uploads, failed_uploads, callbackCalls, waitIdx, waited>>

\* Mutant: with no provider configured the caller's callback is told of a failure
upload_file_begin_Notifies ==
    /\ pc = "idle"
    /\ nCalls < MaxCalls
    /\ nCalls' = nCalls + 1
    /\ IF Len(storage_configs) = 0
       THEN /\ lastOp' = "upload_file"
            /\ callbackCalls' = [callbackCalls EXCEPT
                     ![nCalls + 1] = IF callbackKind # "none" THEN @ + 1 ELSE @]
            /\ UNCHANGED <<pc, loopIdx>>
       ELSE /\ pc' = "uploading"
            /\ loopIdx' = 1
            /\ UNCHANGED <<lastOp, callbackCalls>>
    /\ waited' = <<>>
    /\ UNCHANGED <<envVars, fileExists, storage_configs, upload_threads,
                   azure_uploader, uploaders, callbackKind, successful_uploads,
                   failed_uploads, waitIdx>>

\* upload_file up to the for loop: the early return, the fresh result lists
upload_file_begin ==
    /\ pc = "idle"
    /\ nCalls < MaxCalls
    /\ nCalls' = nCalls + 1
    /\ IF Len(storage_configs) = 0
       THEN /\ lastOp' = "upload_file"
            /\ UNCHANGED <<pc, loopIdx>>
       ELSE /\ pc' = "uploading"
            /\ loopIdx' = 1
            /\ UNCHANGED lastOp
    /\ waited' = <<>>
    /\ UNCHANGED <<envVars, fileExists, storage_configs, upload_threads,
                   azure_uploader, uploaders, callbackKind, successful_uploads,
                   failed_uploads, callbackCalls, waitIdx>>

\* where the uploader is left by _upload_to_s3 / _upload_to_azure
PcAfterStart(outcome) == IF outcome = "started" THEN "run" ELSE "ctor_failed"

\* One iteration of the for loop of upload_file, and the return after the last
upload_file_step ==
    /\ pc = "uploading"
    /\ LET k == nCalls
           config == storage_configs[loopIdx]
           h == <<k, config.provider>>
       IN  \E outcome \in StartOutcomes(config) :
              /\ uploaders' = [uploaders EXCEPT ![h] =
                                  [pc |-> PcAfterStart(outcome), fault |-> "none"]]
              /\ azure_uploader' =
                    IF config.provider = AZURE_BLOB /\ outcome # "ctor_raises"
                    THEN Some(h) ELSE azure_uploader
              /\ upload_threads' =
                    IF outcome = "started" THEN Append(upload_threads, h)
                    ELSE upload_threads
              /\ IF outcome = "started"
                 THEN UNCHANGED <<successful_uploads, failed_uploads, callbackCalls>>
                 ELSE upload_callback(k, config.provider, FALSE)
              /\ IF outcome # "started" /\ upload_callback_raises(k)
                 THEN /\ pc' = "idle"
                      /\ lastOp' = "upload_file raised"
                      /\ loopIdx' = 0
                 ELSE IF loopIdx = Len(storage_configs)
                 THEN /\ pc' = "idle"
                      /\ lastOp' = "upload_file"
                      /\ loopIdx' = 0
                 ELSE /\ loopIdx' = loopIdx + 1
                      /\ UNCHANGED <<pc, lastOp>>
    /\ UNCHANGED <<envVars, fileExists, storage_configs, nCalls, callbackKind,
                   waitIdx, waited>>

\* A caller that uses the Blob uploader without the coordinator:
\* AzureFileUploader(container, blob, account, conn, key) with the settings of
\* the environment, then upload_file(path, callback) on it
AzureFileUploader_direct ==
    /\ pc = "direct"
    /\ nCalls < MaxCalls
    /\ nCalls' = nCalls + 1
    /\ LET h == <<nCalls + 1, AZURE_BLOB>>
           config == [container_name       |-> Getenv("AZURE_STORAGE_CONTAINER_NAME"),
                      storage_account_name |-> Getenv("AZURE_STORAGE_ACCOUNT_NAME"),
                      connection_string    |-> Getenv("AZURE_STORAGE_CONNECTION_STRING"),
                      account_key          |-> Getenv("AZURE_STORAGE_ACCOUNT_KEY")]
       IN  \E outcome \in AzureStartOutcomes(config) :
              /\ uploaders' = [uploaders EXCEPT ![h] =
                                  [pc |-> PcAfterStart(outcome), fault |-> "none"]]
              /\ lastOp' = IF outcome = "started" THEN "AzureFileUploader.upload_file"
                           ELSE "AzureFileUploader raised"
    /\ UNCHANGED <<envVars, fileExists, pc, storage_configs, upload_threads,
                   azure_uploader, loopIdx, callbackKind, successful_uploads,
                   failed_uploads, callbackCalls, waitIdx, waited>>

----------------------------------------------------------------------------
\* AzureFileUploader._upload_worker, one background thread per started uploader.
\* FileUploader (S3) runs the same protocol: check the file, one blocking write,
\* then the callback with the outcome.

SetUploader(h, newPc, newFault) ==
    uploaders' = [uploaders EXCEPT ![h] = [pc |-> newPc, fault |-> newFault]]

\* Mutant: the except clauses log and return without calling the callback
AfterWrite_Swallowed(ok) == IF ok THEN "cb_true" ELSE "done"

\* where the worker goes after open() and upload_blob(): on to callback(True),
\* or into an except clause that calls callback(False)
AfterWrite(ok) == IF ok THEN "cb_true" ELSE "cb_false"

\* Mutant: the file is not looked for before the write
worker_transfer_NoExistsCheck(h) ==
    /\ uploaders[h].pc = "run"
    /\ \E sdk_ok \in BOOLEAN :
          SetUploader(h, AfterWrite(sdk_ok), IF sdk_ok THEN "none" ELSE "write_failed")
    /\ UNCHANGED <<envVars, fileExists, pc, storage_configs, upload_threads,
                   azure_uploader, nCalls, loopIdx, callbackKind, successful_uploads,
                   failed_uploads, callbackCalls, waitIdx, waited, lastOp>>

\* The try block up to the callback: Path(file_path).exists() (else
\* FileNotFoundError), get_blob_client (which raises on an empty name), open()
\* and upload_blob(), which returns or raises
worker_transfer(h) ==
    /\ uploaders[h].pc = "run"
    /\ IF ~fileExists
       THEN SetUploader(h, "cb_false", "file_not_found")
       ELSE IF h[2] = AZURE_BLOB /\ get_blob_client_raises(container_name, blob_name)
       THEN SetUploader(h, "cb_false", "blob_client_error")
       ELSE \E sdk_ok \in BOOLEAN :
               SetUploader(h, AfterWrite(sdk_ok),
                           IF sdk_ok THEN "none" ELSE "write_failed")
    /\ UNCHANGED <<envVars, fileExists, pc, storage_configs, upload_threads,
                   azure_uploader, nCalls, loopIdx, callbackKind, successful_uploads,
                   failed_uploads, callbackCalls, waitIdx, waited, lastOp>>

\* callback(True) inside the try block: if it raises, an except clause runs
worker_callback_true(h) ==
    /\ uploaders[h].pc = "cb_true"
    /\ upload_callback(h[1], ProviderLabel(h[2]), TRUE)
    /\ IF upload_callback_raises(h[1])
       THEN SetUploader(h, "cb_false", "callback_raised")
       ELSE SetUploader(h, "done", "none")
    /\ UNCHANGED <<envVars, fileExists, pc, storage_configs, upload_threads,
                   azure_uploader, nCalls, loopIdx, callbackKind, waitIdx, waited,
                   lastOp>>

\* Mutant: the except clauses log and return, the callback is not called
worker_callback_false_Silent(h) ==
    /\ uploaders[h].pc = "cb_false"
    /\ SetUploader(h, "done", "none")
    /\ UNCHANGED <<envVars, fileExists, pc, storage_configs, upload_threads,
                   azure_uploader, nCalls, loopIdx, callbackKind, waitIdx, waited,
                   lastOp, successful_uploads, failed_uploads, callbackCalls>>

\* callback(False) inside an except clause: if it raises, the thread ends with it
worker_callback_false(h) ==
    /\ uploaders[h].pc = "cb_false"
    /\ upload_callback(h[1], ProviderLabel(h[2]), FALSE)
    /\ IF upload_callback_raises(h[1])
       THEN SetUploader(h, "died", "none")
       ELSE SetUploader(h, "done", "none")
    /\ UNCHANGED <<envVars, fileExists, pc, storage_configs, upload_threads,
                   azure_uploader, nCalls, loopIdx, callbackKind, waitIdx, waited,
                   lastOp>>

_upload_worker(h) ==
    \/ worker_transfer(h)
    \/ worker_callback_true(h)
    \/ worker_callback_false(h)

\* AzureFileUploader's thread
AzureWorker(k) == _upload_worker(<<k, AZURE_BLOB>>)

\* FileUploader's thread
S3Worker(k) == _upload_worker(<<k, AWS_S3>>)

----------------------------------------------------------------------------
\* wait_for_uploads, delete_local_file

\* Mutant: wait_for_upload returns without join()
wait_for_upload_returns_NoJoin(h) == TRUE

\* wait_for_upload returns: at once if the thread is not alive, else when
\* join() does
wait_for_upload_returns(h) == ~is_alive(h)

\* Mutant: only the handles of the most recent upload_file call are gone over
WaitTargets_LastCallOnly == SelectSeq(upload_threads, LAMBDA h : h[1] = nCalls)

\* the handles the for loop of wait_for_uploads goes over
WaitTargets == upload_threads

\* Mutant: wait_for_uploads returns at once, without going over the handles
wait_for_uploads_begin_NoWait ==
    /\ pc = "idle"
    /\ waited' = <<>>
    /\ lastOp' = "wait_for_uploads"
    /\ UNCHANGED <<envVars, fileExists, pc, waitIdx, storage_configs, upload_threads,
                   azure_uploader, uploaders, nCalls, loopIdx, callbackKind,
                   successful_uploads, failed_uploads, callbackCalls>>

wait_for_uploads_begin ==
    /\ pc = "idle"
    /\ waited' = <<>>
    /\ IF Len(WaitTargets) = 0
       THEN /\ lastOp' = "wait_for_uploads"
            /\ UNCHANGED <<pc, waitIdx>>
       ELSE /\ pc' = "waiting"
            /\ waitIdx' = 1
            /\ UNCHANGED lastOp
    /\ UNCHANGED <<envVars, fileExists, storage_configs, upload_threads,
                   azure_uploader, uploaders, nCalls, loopIdx, callbackKind,
                   successful_uploads, failed_uploads, callbackCalls>>

\* Mutant: after the last handle the loop starts over
wait_for_uploads_step_StartsOver ==
    /\ pc = "waiting"
    /\ LET h == WaitTargets[waitIdx]
       IN  /\ wait_for_upload_returns(h)
           /\ waited' = IF waitIdx = Len(WaitTargets) THEN <<>> ELSE Append(waited, h)
    /\ waitIdx' = IF waitIdx = Len(WaitTargets) THEN 1 ELSE waitIdx + 1
    /\ UNCHANGED <<envVars, fileExists, pc, lastOp, storage_configs, upload_threads,
                   azure_uploader, uploaders, nCalls, loopIdx, callbackKind,
                   successful_uploads, failed_uploads, callbackCalls>>

\* One iteration of the for loop, and the return after the last
wait_for_uploads_step ==
    /\ pc = "waiting"
    /\ LET h == WaitTargets[waitIdx]
       IN  /\ wait_for_upload_returns(h)
           /\ waited' = Append(waited, h)
    /\ IF waitIdx = Len(WaitTargets)
       THEN /\ pc' = "idle"
            /\ lastOp' = "wait_for_uploads"
            /\ waitIdx' = 0
       ELSE /\ waitIdx' = waitIdx + 1
            /\ UNCHANGED <<pc, lastOp>>
    /\ UNCHANGED <<envVars, fileExists, storage_configs, upload_threads,
                   azure_uploader, uploaders, nCalls, loopIdx, callbackKind,
                   successful_uploads, failed_uploads, callbackCalls>>

\* AzureFileUploader.delete_file (FileUploader's is taken to do the same):
\* unlink the file if it is there; the value is whether the file is there after
delete_file(h) == FALSE

\* Mutant: the file is removed whether or not there is a handle
delete_local_file_NoHandleNeeded ==
    /\ pc = "idle"
    /\ fileExists' = FALSE
    /\ lastOp' = "delete_local_file"
    /\ waited' = <<>>
    /\ UNCHANGED <<envVars, pc, storage_configs, upload_threads, azure_uploader,
                   uploaders, nCalls, loopIdx, callbackKind, successful_uploads,
                   failed_uploads, callbackCalls, waitIdx>>

\* delete_local_file: the first handle's delete_file, if there is a handle
delete_local_file ==
    /\ pc = "idle"
    /\ fileExists' = IF Len(upload_threads) > 0 THEN delete_file(upload_threads[1])
                     ELSE fileExists
    /\ lastOp' = "delete_local_file"
    /\ waited' = <<>>
    /\ UNCHANGED <<envVars, pc, storage_configs, upload_threads, azure_uploader,
                   uploaders, nCalls, loopIdx, callbackKind, successful_uploads,
                   failed_uploads, callbackCalls, waitIdx>>

----------------------------------------------------------------------------
\* Environments

EnvNames == {"AWS_RECORDING_STORAGE_BUCKET_NAME", "AWS_ENDPOINT_URL",
             "AWS_DEFAULT_REGION", "AWS_ACCESS_KEY_ID", "AWS_SECRET_ACCESS_KEY",
             "AZURE_STORAGE_CONTAINER_NAME", "AZURE_STORAGE_ACCOUNT_NAME",
             "AZURE_STORAGE_CONNECTION_STRING", "AZURE_STORAGE_ACCOUNT_KEY"}

MkEnv(bucket, endpoint, region, key_id, secret, container, account, conn, key) ==
    [n \in EnvNames |->
        CASE n = "AWS_RECORDING_STORAGE_BUCKET_NAME" -> bucket
          [] n = "AWS_ENDPOINT_URL" -> endpoint
          [] n = "AWS_DEFAULT_REGION" -> region
          [] n = "AWS_ACCESS_KEY_ID" -> key_id
          [] n = "AWS_SECRET_ACCESS_KEY" -> secret
          [] n = "AZURE_STORAGE_CONTAINER_NAME" -> container
          [] n = "AZURE_STORAGE_ACCOUNT_NAME" -> account
          [] n = "AZURE_STORAGE_CONNECTION_STRING" -> conn
          [] OTHER -> key]

\* Values STORAGE_UPLOAD_MODE takes: unset, the four documented values in
\* several letter cases, and values that are none of them
ModeValues ==
    {None,
     Some(<<"s","3">>), Some(<<"S","3">>),
     Some(<<"a","z","u","r","e">>), Some(<<"A","Z","U","R","E">>),
     Some(<<"A","z","u","r","e">>),
     Some(<<"b","o","t","h">>), Some(<<"B","O","T","H">>), Some(<<"B","o","t","H">>),
     Some(<<"a","l","l">>), Some(<<"A","L","L">>), Some(<<"a","L","l">>),
     Some(<<>>), Some(<<"g","c","s">>), Some(<<"n","o","n","e">>),
     Some(<<"s","3",",","a","z","u","r","e">>), Some(<<" ","b","o","t","h">>),
     Some(<<"S","4">>)}

Present == {None, Some("v")}

PresentOrEmpty == {None, Some(""), Some("v")}

\* Every environment (for the configuration loader)
AllEnvs ==
    {MkEnv(b, e, r, i, s, c, a, cs, k) :
        b \in PresentOrEmpty, e \in Present, r \in Present, i \in Present,
        s \in Present, c \in PresentOrEmpty, a \in PresentOrEmpty,
        cs \in PresentOrEmpty, k \in PresentOrEmpty}

\* The environments the coordinator is run in: both providers with managed
\* identity, both with an account key alone, Blob alone with a connection
\* string, S3 alone by default, no provider at all, and Blob alone with an
\* empty file key
RunEnvs ==
    {[mode |-> Some(<<"b","o","t","h">>), avail |-> TRUE, key |-> "rec.mp4",
      env |-> MkEnv(Some("v"), None, None, None, None, Some("v"), Some("v"), None, None)],
     [mode |-> Some(<<"B","o","t","H">>), avail |-> TRUE, key |-> "rec.mp4",
      env |-> MkEnv(Some("v"), None, None, None, None, Some("v"), None, None, Some("v"))],
     [mode |-> Some(<<"a","z","u","r","e">>), avail |-> TRUE, key |-> "rec.mp4",
      env |-> MkEnv(Some("v"), None, None, None, None, Some("v"), None, Some("v"), None)],
     [mode |-> None, avail |-> TRUE, key |-> "rec.mp4",
      env |-> MkEnv(Some("v"), None, None, Some("v"), Some("v"), Some("v"), Some("v"), None, None)],
     [mode |-> Some(<<"a","z","u","r","e">>), avail |-> FALSE, key |-> "rec.mp4",
      env |-> MkEnv(Some("v"), None, None, None, None, Some("v"), Some("v"), None, None)],
     [mode |-> Some(<<"A","Z","U","R","E">>), avail |-> TRUE, key |-> "",
      env |-> MkEnv(None, None, None, None, None, Some("v"), Some("v"), None, None)]}

----------------------------------------------------------------------------
\* Specifications

\* No coordinator, no uploader, no thread, nothing called
InitFields ==
    /\ storage_configs = <<>>
    /\ upload_threads = <<>>
    /\ azure_uploader = None
    /\ uploaders = [h \in Handles |-> [pc |-> "absent", fault |-> "none"]]
    /\ nCalls = 0
    /\ loopIdx = 0
    /\ callbackKind \in CallbackKinds
    /\ successful_uploads = [k \in Calls |-> <<>>]
    /\ failed_uploads = [k \in Calls |-> <<>>]
    /\ callbackCalls = [k \in Calls |-> 0]
    /\ waitIdx = 0
    /\ waited = <<>>
    /\ lastOp = "none"

\* Before UnifiedStorageManager(file_key) is called
InitRest == pc = "new" /\ InitFields

Init ==
    /\ \E e \in RunEnvs :
          /\ uploadMode = e.mode
          /\ env = e.env
          /\ AZURE_AVAILABLE = e.avail
          /\ file_key = e.key
    /\ fileExists \in BOOLEAN
    /\ InitRest

Next ==
    \/ Construct
    \/ upload_file_begin
    \/ upload_file_step
    \/ wait_for_uploads_begin
    \/ wait_for_uploads_step
    \/ delete_local_file
    \/ \E k \in Calls : AzureWorker(k)
    \/ \E k \in Calls : S3Worker(k)

Spec == Init /\ [][Next]_vars

\* Every started thread is scheduled, and its SDK call returns or raises
FairSpec == Spec /\ \A h \in Handles : WF_vars(_upload_worker(h))

\* As FairSpec, and the caller blocked in join() goes on once the thread it
\* waits for has ended
WaitFairSpec == FairSpec /\ WF_vars(wait_for_uploads_step)

\* The configuration loader alone, over every environment
LoaderInit ==
    /\ uploadMode \in ModeValues
    /\ env \in AllEnvs
    /\ AZURE_AVAILABLE \in BOOLEAN
    /\ file_key = "rec.mp4"
    /\ fileExists = TRUE
    /\ InitRest

LoaderNext == Construct

LoaderSpec == LoaderInit /\ [][LoaderNext]_vars

\* Environments of the Blob uploader used alone: a container name and every
\* combination of account name, connection string and account key
AuthEnvs ==
    {MkEnv(None, None, None, None, None, Some("v"), a, cs, k) :
        a \in PresentOrEmpty, cs \in PresentOrEmpty, k \in PresentOrEmpty}

\* The Blob uploader alone, over every combination of its credentials
AuthInit ==
    /\ uploadMode = None
    /\ env \in AuthEnvs
    /\ AZURE_AVAILABLE \in BOOLEAN
    /\ file_key = "rec.mp4"
    /\ fileExists \in BOOLEAN
    /\ pc = "direct"
    /\ InitFields

AuthNext == AzureFileUploader_direct

AuthSpec == AuthInit /\ [][AuthNext]_vars

----------------------------------------------------------------------------
\* Vocabulary of the properties

Count(seq, x) == Cardinality({i \in DOMAIN seq : seq[i] = x})

Range(seq) == {seq[i] : i \in DOMAIN seq}

\* Every invocation of the aggregation callback made for call k
AggregationCalls(k) == successful_uploads[k] \o failed_uploads[k]

\* upload_file call k has returned or raised
CallEnded(k) == k < nCalls \/ (k = nCalls /\ pc # "uploading")

\* Call k has ended and none of its background uploads is still running
CallQuiet(k) == CallEnded(k) /\ \A p \in Providers : ~is_alive(<<k, p>>)

BothConfigured == configured_providers = <<AWS_S3, AZURE_BLOB>>

ProviderSet == Range(configured_providers)

\* The mode is set to the word lo, each letter in either case
ModeIs(lo, up) ==
    /\ uploadMode # None
    /\ LET m == Value(uploadMode)
       IN  /\ Len(m) = Len(lo)
           /\ \A i \in DOMAIN lo : m[i] \in {lo[i], up[i]}

ModeUnset == uploadMode = None

ModeS3 == ModeIs(<<"s","3">>, <<"S","3">>)

ModeAzure == ModeIs(<<"a","z","u","r","e">>, <<"A","Z","U","R","E">>)

ModeBoth == ModeIs(<<"b","o","t","h">>, <<"B","O","T","H">>)

ModeAll == ModeIs(<<"a","l","l">>, <<"A","L","L">>)

ModeUnrecognized == ~ModeUnset /\ ~ModeS3 /\ ~ModeAzure /\ ~ModeBoth /\ ~ModeAll

BucketSet == Truthy(env["AWS_RECORDING_STORAGE_BUCKET_NAME"])

ContainerSet == Truthy(env["AZURE_STORAGE_CONTAINER_NAME"])

SomeAzureAuthSet ==
    \/ Truthy(env["AZURE_STORAGE_ACCOUNT_NAME"])
    \/ Truthy(env["AZURE_STORAGE_CONNECTION_STRING"])
    \/ Truthy(env["AZURE_STORAGE_ACCOUNT_KEY"])

CompleteSettings == BucketSet /\ ContainerSet /\ SomeAzureAuthSet

----------------------------------------------------------------------------
\* C1 (as stated, taken in the cases most favourable to it: the caller's callback
\* does not raise and the S3 uploader is constructed and started): with an S3
\* and a Blob config, the aggregation callback is never invoked more than twice
\* for one upload_file call, and once the call has ended and its background
\* uploads have finished it has been invoked exactly twice, once with "AWS S3"
\* and once with "Azure Blob Storage".
C1_TwoLabelledCallbacks ==
    \A k \in Calls :
        (BothConfigured /\ callbackKind # "raises"
           /\ uploaders[<<k, AWS_S3>>].pc # "ctor_failed") =>
            /\ Len(AggregationCalls(k)) <= 2
            /\ (k <= nCalls /\ CallQuiet(k)) =>
                  /\ Len(AggregationCalls(k)) = 2
                  /\ Count(AggregationCalls(k), "AWS S3") = 1
                  /\ Count(AggregationCalls(k), "Azure Blob Storage") = 1

\* C2: when wait_for_uploads has returned, no background upload is still
\* running; in particular, after one upload_file call with both providers and
\* the file in place, both uploads have completed.
C2_WaitReturnsAfterUploads ==
    (pc = "idle" /\ lastOp = "wait_for_uploads") =>
        \A h \in Handles : ~is_alive(h)

C2_Witness ==
    /\ pc = "idle" /\ lastOp = "wait_for_uploads"
    /\ BothConfigured /\ fileExists /\ nCalls = 1
    /\ upload_threads = <<<<1, AWS_S3>>, <<1, AZURE_BLOB>>>>
    /\ uploaders[<<1, AWS_S3>>].pc = "done"
    /\ uploaders[<<1, AZURE_BLOB>>].pc = "done"

\* C3 (as stated): once an upload_file call in which the construction of one
\* provider's uploader raised has ended, that provider is in the failure list of
\* the call and every configured provider has been attempted in the call.
C3_FailureIsolatedPerProvider ==
    \A k \in Calls :
        (k <= nCalls /\ CallEnded(k)
           /\ \E p \in Providers : uploaders[<<k, p>>].pc = "ctor_failed") =>
            /\ \A p \in Providers :
                  uploaders[<<k, p>>].pc = "ctor_failed" =>
                      \/ Count(failed_uploads[k], p) >= 1
                      \/ Count(failed_uploads[k], ProviderLabel(p)) >= 1
            /\ \A p \in ProviderSet : uploaders[<<k, p>>].pc # "absent"

\* C4: if the Blob uploader's write raises, no success has been recorded for
\* Blob, and from some point on the failure list of the call holds Blob exactly
\* once and the success list does not hold it.
C4_BlobWriteFailureRecordedOnce ==
    \A k \in Calls :
        /\ [](uploaders[<<k, AZURE_BLOB>>].fault = "write_failed" =>
                Count(successful_uploads[k], azure_callback) = 0)
        /\ (uploaders[<<k, AZURE_BLOB>>].fault = "write_failed") ~>
               [](/\ Count(failed_uploads[k], azure_callback) = 1
                  /\ Count(successful_uploads[k], azure_callback) = 0)

C4_Witness ==
    /\ fileExists /\ callbackKind = "ok"
    /\ uploaders[<<1, AZURE_BLOB>>].pc = "done"
    /\ Count(failed_uploads[1], azure_callback) = 1
    /\ Count(successful_uploads[1], azure_callback) = 0

\* C5: with zero valid configs, whatever is called and however often, there is
\* no uploader handle, no background upload, no aggregation entry and no
\* invocation of the caller's callback.
C5_NoConfigsNoWork ==
    (pc # "new" /\ ~has_storage_configured) =>
        /\ upload_threads = <<>>
        /\ azure_uploader = None
        /\ \A h \in Handles : uploaders[h].pc = "absent"
        /\ \A k \in Calls :
              /\ callbackCalls[k] = 0
              /\ AggregationCalls(k) = <<>>

C5_Witness ==
    /\ pc = "idle" /\ ~has_storage_configured
    /\ nCalls >= 1 /\ lastOp = "upload_file" /\ callbackKind = "ok"

\* C6 (as stated): when wait_for_uploads has returned, it has waited on exactly
\* the handles created by the most recent upload_file call.
C6_WaitsOnLastCallOnly ==
    (pc = "idle" /\ lastOp = "wait_for_uploads") =>
        waited = SelectSeq(upload_threads, LAMBDA h : h[1] = nCalls)

\* C6 (amended): when wait_for_uploads has returned, it has waited, in order, on
\* every handle of upload_threads, which holds every uploader started by any
\* upload_file call so far.
C6_WaitsOnAllHandles ==
    (pc = "idle" /\ lastOp = "wait_for_uploads") =>
        /\ waited = upload_threads
        /\ \A h \in Handles : Started(h) => h \in Range(waited)

C6_Witness ==
    /\ pc = "idle" /\ lastOp = "wait_for_uploads"
    /\ nCalls = 2
    /\ \E h \in Range(waited) : h[1] = 1
    /\ \E h \in Range(waited) : h[1] = 2

\* C7 (as stated): with complete settings for both providers the loader returns
\* {S3} for s3 and for an unset mode, {Blob} for azure, {S3, Blob} for both and
\* all, in any letter case.
C7_EnablementTable ==
    (pc = "idle" /\ CompleteSettings) =>
        /\ (ModeS3 \/ ModeUnset) => ProviderSet = {AWS_S3}
        /\ ModeAzure => ProviderSet = {AZURE_BLOB}
        /\ (ModeBoth \/ ModeAll) => ProviderSet = {AWS_S3, AZURE_BLOB}

\* C7 (amended): the table holds when the Azure SDK is importable; when it is
\* not, Blob is never enabled: azure gives no config, both and all give {S3}.
C7_EnablementTableWithSdk ==
    (pc = "idle" /\ CompleteSettings) =>
        /\ (ModeS3 \/ ModeUnset) => ProviderSet = {AWS_S3}
        /\ ModeAzure => ProviderSet = IF AZURE_AVAILABLE THEN {AZURE_BLOB} ELSE {}
        /\ (ModeBoth \/ ModeAll) =>
              ProviderSet = IF AZURE_AVAILABLE THEN {AWS_S3, AZURE_BLOB} ELSE {AWS_S3}
        /\ Len(storage_configs) = Cardinality(ProviderSet)

C7_Witness ==
    /\ pc = "idle" /\ CompleteSettings /\ AZURE_AVAILABLE
    /\ uploadMode = Some(<<"B","o","t","H">>)
    /\ configured_providers = <<AWS_S3, AZURE_BLOB>>

\* C8 (as stated): an unrecognized mode with a bucket name present yields
\* exactly the S3 config.
C8_UnrecognizedModeIsS3Only ==
    (pc = "idle" /\ ModeUnrecognized /\ BucketSet) =>
        configured_providers = <<AWS_S3>>

\* C8 (amended): an unrecognized mode enables no provider: the loader returns
\* no config, bucket name or not.
C8_UnrecognizedModeDisablesAll ==
    (pc = "idle" /\ ModeUnrecognized) => storage_configs = <<>>

C8_Witness ==
    /\ pc = "idle" /\ CompleteSettings /\ AZURE_AVAILABLE
    /\ uploadMode = Some(<<"g","c","s">>)
    /\ storage_configs = <<>>

\* C9: no Blob config of the coordinator lacks all of account name, connection
\* string and account key; with a container name and none of the three set, no
\* Blob config is loaded, in any mode.
C9_BlobConfigHasAuth ==
    pc = "idle" =>
        /\ \A i \in DOMAIN storage_configs :
              storage_configs[i].provider = AZURE_BLOB =>
                  \/ Truthy(storage_configs[i].config.storage_account_name)
                  \/ Truthy(storage_configs[i].config.connection_string)
                  \/ Truthy(storage_configs[i].config.account_key)
        /\ (ContainerSet /\ ~SomeAzureAuthSet) => AZURE_BLOB \notin ProviderSet

C9_Witness ==
    /\ pc = "idle" /\ ContainerSet /\ ~SomeAzureAuthSet /\ BucketSet
    /\ AZURE_AVAILABLE /\ ModeBoth
    /\ configured_providers = <<AWS_S3>>

\* C10: no S3 config of the coordinator has an empty or absent bucket name, and
\* with a bucket name and a mode that enables S3 the S3 config is loaded whether
\* or not endpoint, region and credentials are set.
C10_S3ConfigNeedsOnlyBucket ==
    pc = "idle" =>
        /\ \A i \in DOMAIN storage_configs :
              storage_configs[i].provider = AWS_S3 =>
                  /\ Truthy(storage_configs[i].config.bucket)
                  /\ storage_configs[i].config.bucket =
                        env["AWS_RECORDING_STORAGE_BUCKET_NAME"]
        /\ ~BucketSet => AWS_S3 \notin ProviderSet
        /\ (BucketSet /\ (ModeUnset \/ ModeS3 \/ ModeBoth \/ ModeAll)) =>
              AWS_S3 \in ProviderSet

C10_Witness ==
    /\ pc = "idle" /\ BucketSet
    /\ env["AWS_ENDPOINT_URL"] = None /\ env["AWS_DEFAULT_REGION"] = None
    /\ env["AWS_ACCESS_KEY_ID"] = None /\ env["AWS_SECRET_ACCESS_KEY"] = None
    /\ AWS_S3 \in ProviderSet

\* Vocabulary of the Blob URL claims

\* No Blob uploader has been constructed or attempted by any upload_file call
NoBlobAttempted == \A k \in Calls : uploaders[<<k, AZURE_BLOB>>].pc = "absent"

\* The Blob upload of call k has written the blob
BlobUploadSucceeded(k) ==
    \/ uploaders[<<k, AZURE_BLOB>>].pc = "cb_true"
    \/ \E i \in DOMAIN successful_uploads[k] : successful_uploads[k][i] = azure_callback

\* The coordinator holds a Blob config
BlobConfigured ==
    \E i \in DOMAIN storage_configs : storage_configs[i].provider = AZURE_BLOB

\* url ends with /container/key
UrlNames(url, container, key) ==
    LET n == Len(url)
    IN  /\ n > 4
        /\ url[n - 3] = "/" /\ url[n - 2] = container
        /\ url[n - 1] = "/" /\ url[n] = key

\* C11: get_azure_blob_url returns None in every state where no Blob upload has
\* been attempted (before any upload_file call, and always when Blob is not
\* configured), and once a Blob upload has succeeded it returns a URL that ends
\* with the configured container name and the coordinator's file key.
C11_BlobUrlAbsentOrBuilt ==
    /\ NoBlobAttempted => get_azure_blob_url = None
    /\ (pc # "new" /\ ~BlobConfigured) => get_azure_blob_url = None
    /\ (\E k \in Calls : BlobUploadSucceeded(k)) =>
           LET url == get_azure_blob_url
           IN  /\ url # None
               /\ UrlNames(Value(url), Value(env["AZURE_STORAGE_CONTAINER_NAME"]),
                           file_key)

C11_Witness ==
    /\ pc = "idle" /\ lastOp = "upload_file"
    /\ Count(successful_uploads[1], azure_callback) = 1
    /\ get_azure_blob_url =
          Some(<<"https://", "v", ".blob.core.windows.net", "/", "v", "/", "rec.mp4">>)

\* A Blob uploader was constructed by upload_file call k (its thread is then
\* started)
BlobConstructed(k) == uploaders[<<k, AZURE_BLOB>>].pc \notin {"absent", "ctor_failed"}

\* C12 (as stated): between the caller's operations, get_azure_blob_url returns
\* a URL only if the most recent upload_file call constructed and started a Blob
\* uploader.
C12_UrlOnlyFromLastCall ==
    (pc = "idle" /\ get_azure_blob_url # None) => BlobConstructed(nCalls)

\* C12 (amended): between the caller's operations, get_azure_blob_url returns a
\* URL if and only if the file key is not empty and some upload_file call so
\* far, the most recent or an earlier one, constructed a Blob uploader; the
\* uploader it asks is the one constructed last.
C12_UrlFromAnyCall ==
    pc = "idle" =>
        LET constructed == {k \in Calls : BlobConstructed(k)}
        IN  /\ get_azure_blob_url # None <=> (file_key # "" /\ constructed # {})
            /\ azure_uploader =
                  {<<k, AZURE_BLOB>> : k \in {j \in constructed :
                                                 \A i \in constructed : i <= j}}

C12_Witness ==
    /\ pc = "idle" /\ lastOp = "upload_file" /\ nCalls = 2
    /\ BlobConstructed(1)
    /\ uploaders[<<2, AZURE_BLOB>>].pc = "ctor_failed"
    /\ azure_uploader = Some(<<1, AZURE_BLOB>>)
    /\ get_azure_blob_url # None

\* C13 (as stated, taken where the S3 uploader is constructed and started):
\* every entry the aggregation callback has recorded for an upload_file call, on
\* the background paths and on the path where constructing an uploader raised,
\* is one of the labels "AWS S3" and "Azure Blob Storage".
C13_LabelsAreHumanReadable ==
    \A k \in Calls :
        uploaders[<<k, AWS_S3>>].pc # "ctor_failed" =>
            Range(AggregationCalls(k)) \subseteq {"AWS S3", "Azure Blob Storage"}

\* The credentials the Blob uploader is constructed with
AccountGiven == Truthy(env["AZURE_STORAGE_ACCOUNT_NAME"])

ConnectionStringGiven == Truthy(env["AZURE_STORAGE_CONNECTION_STRING"])

KeyGiven == Truthy(env["AZURE_STORAGE_ACCOUNT_KEY"])

SelectedStrategy ==
    AuthStrategy(env["AZURE_STORAGE_ACCOUNT_NAME"],
                 env["AZURE_STORAGE_CONNECTION_STRING"],
                 env["AZURE_STORAGE_ACCOUNT_KEY"])

C15_MissingFileOnlyCallbackFalse ==
    [][\A k \in Calls :
          LET h == <<k, AZURE_BLOB>>
          IN  /\ (~fileExists /\ uploaders[h].pc = "absent" /\ uploaders'[h].pc = "run") =>
                    /\ lastOp' # "upload_file raised"
                    /\ upload_threads' = Append(upload_threads, h)
              /\ (~fileExists /\ uploaders[h].pc = "run" /\ uploaders'[h] # uploaders[h]) =>
                    /\ uploaders'[h] = [pc |-> "cb_false", fault |-> "file_not_found"]
                    /\ UNCHANGED <<pc, lastOp, successful_uploads, failed_uploads>>
              /\ (uploaders[h].fault = "file_not_found" /\ uploaders'[h] # uploaders[h]) =>
                    /\ uploaders'[h].pc \in {"done", "died"}
                    /\ failed_uploads'[k] = Append(failed_uploads[k], azure_callback)
                    /\ UNCHANGED <<pc, lastOp, successful_uploads>>
      ]_vars

C15_Witness ==
    /\ ~fileExists /\ nCalls = 1 /\ pc = "idle" /\ lastOp = "upload_file"
    /\ callbackKind = "ok" /\ callbackCalls[1] = 1
    /\ upload_threads = <<<<1, AZURE_BLOB>>>>
    /\ uploaders[<<1, AZURE_BLOB>>].pc = "done"
    /\ failed_uploads[1] = <<azure_callback>>
    /\ successful_uploads[1] = <<>>

\* The invocations of the Blob uploader's callback made for call k
BlobCallbacks(k) ==
    Count(successful_uploads[k], azure_callback) + Count(failed_uploads[k], azure_callback)

\* C16: with a callback that returns, a background Blob upload goes to
\* callback(True) only when the file exists and the write returned, and to
\* callback(False) when the file is missing or get_blob_client or the write
\* raised; it then invokes the callback once with that value and ends; no other
\* step invokes it, so a finished upload has invoked it exactly once.
C16_CallbackOnceWithOutcome ==
    [][callbackKind = "ok" =>
         \A k \in Calls :
            LET h == <<k, AZURE_BLOB>>
                old == uploaders[h]
                new == uploaders'[h]
            IN  /\ (old.pc = "run" /\ new # old) =>
                      /\ new.pc = "cb_true" => (fileExists /\ new.fault = "none")
                      /\ new.pc # "cb_true" =>
                            /\ new.pc = "cb_false"
                            /\ new.fault \in {"file_not_found", "blob_client_error",
                                              "write_failed"}
                      /\ ~fileExists => new.fault = "file_not_found"
                      /\ UNCHANGED <<successful_uploads, failed_uploads, callbackCalls>>
                /\ (old.pc = "cb_true" /\ new # old) =>
                      /\ new.pc = "done"
                      /\ successful_uploads'[k] = Append(successful_uploads[k], azure_callback)
                      /\ callbackCalls'[k] = callbackCalls[k] + 1
                      /\ UNCHANGED failed_uploads
                /\ (old.pc = "cb_false" /\ new # old) =>
                      /\ new.pc = "done"
                      /\ failed_uploads'[k] = Append(failed_uploads[k], azure_callback)
                      /\ callbackCalls'[k] = callbackCalls[k] + 1
                      /\ UNCHANGED successful_uploads
                /\ new = old =>
                      /\ Count(successful_uploads'[k], azure_callback) =
                            Count(successful_uploads[k], azure_callback)
                      /\ Count(failed_uploads'[k], azure_callback) =
                            Count(failed_uploads[k], azure_callback)
                /\ BlobCallbacks(k)' = IF new.pc = "done" THEN 1 ELSE 0
      ]_vars

C16_Witness ==
    /\ callbackKind = "ok" /\ fileExists /\ nCalls = 1
    /\ uploaders[<<1, AZURE_BLOB>>].pc = "done"
    /\ Count(successful_uploads[1], azure_callback) = 1
    /\ Count(failed_uploads[1], azure_callback) = 0
    /\ callbackCalls[1] >= 1

\* C17 (as stated): no exception leaves _upload_worker of a Blob uploader:
\* whatever raises inside it, the callback included, the thread ends normally.
C17_NoExceptionLeavesWorker ==
    \A k \in Calls : uploaders[<<k, AZURE_BLOB>>].pc # "died"

\* C18 (as stated, taken where the S3 uploader is constructed and started): once
\* an upload_file call has ended and every background upload it started has
\* finished, the two lists of the call hold as many entries as there are valid
\* configs, and each configured provider appears, under its label or its name,
\* exactly once in the two lists together.
C18_NoLostUpdates ==
    \A k \in Calls :
        (k <= nCalls /\ CallQuiet(k) /\ uploaders[<<k, AWS_S3>>].pc # "ctor_failed") =>
            /\ Len(AggregationCalls(k)) = Len(storage_configs)
            /\ \A p \in ProviderSet :
                  Count(AggregationCalls(k), p)
                     + Count(AggregationCalls(k), ProviderLabel(p)) = 1

\* C19: when delete_local_file is called right after wait_for_uploads has
\* returned, no uploader started by the coordinator has a thread still running
\* at the moment the file is removed, in particular none that has yet to look
\* for the file; and an upload that has finished never changes again, so none
\* of them fails with file-not-found after the deletion.
C19_DeleteAfterWaitIsSafe ==
    [][/\ (lastOp = "wait_for_uploads" /\ lastOp' = "delete_local_file") =>
             \A h \in Handles :
                /\ ~is_alive(h)
                /\ Started(h) => uploaders[h].pc \in {"done", "died"}
                /\ uploaders'[h] = uploaders[h]
       /\ \A h \in Handles :
             uploaders[h].pc \in {"done", "died"} => uploaders'[h] = uploaders[h]
      ]_vars

C19_Witness ==
    /\ pc = "idle" /\ lastOp = "delete_local_file" /\ ~fileExists
    /\ nCalls = 1 /\ BothConfigured
    /\ upload_threads = <<<<1, AWS_S3>>, <<1, AZURE_BLOB>>>>
    /\ \A h \in Range(upload_threads) : uploaders[h].pc = "done"
    /\ successful_uploads[1] \in {<<s3_callback, azure_callback>>,
                                  <<azure_callback, s3_callback>>}
    /\ failed_uploads[1] = <<>>

\* a comes before every b in seq
Before(seq, a, b) ==
    \A j \in DOMAIN seq : seq[j] = b => \E i \in 1..(j - 1) : seq[i] = a

\* C20: at all times, when two configs are loaded and one is the Blob config
\* (both providers are configured), configured_providers is <<"s3", "azure">>;
\* in every upload_file call made so far the Blob uploader is
\* constructed only after the S3 uploader has been constructed and its thread
\* started, or its construction has failed, and a started S3 handle precedes the
\* Blob handle of the call in upload_threads; and the loop of upload_file can
\* take its next step or return, whatever the threads it started are doing.
C20_S3BeforeBlobNoWait ==
    [](/\ pc = "uploading" => ENABLED upload_file_step
       /\ (Len(storage_configs) = 2 /\ BlobConfigured) =>
             /\ configured_providers = <<"s3", "azure">>
             /\ \A k \in 1..nCalls :
                   LET s3 == <<k, AWS_S3>>
                       blob == <<k, AZURE_BLOB>>
                   IN  /\ uploaders[blob].pc # "absent" => uploaders[s3].pc # "absent"
                       /\ Started(s3) => Before(upload_threads, s3, blob))

C20_Witness ==
    /\ pc = "idle" /\ lastOp = "upload_file" /\ nCalls = 1
    /\ configured_providers = <<"s3", "azure">>
    /\ upload_threads = <<<<1, AWS_S3>>, <<1, AZURE_BLOB>>>>
    /\ uploaders[<<1, AWS_S3>>].pc = "run"
    /\ uploaders[<<1, AZURE_BLOB>>].pc = "run"

\* A step of delete_local_file
DeleteStep ==
    /\ pc = "idle" /\ pc' = "idle"
    /\ lastOp' = "delete_local_file"
    /\ uploaders' = uploaders /\ nCalls' = nCalls

\* C21: a step of delete_local_file leaves the local file as it is when the
\* coordinator holds no uploader handle, and removes it (through the first
\* handle) when it holds one; it changes no uploader and no handle; and no other
\* step of the coordinator or of a thread removes or creates the file.
C21_DeleteThroughFirstHandleOnly ==
    [][/\ DeleteStep =>
             /\ upload_threads = <<>> => fileExists' = fileExists
             /\ upload_threads # <<>> => fileExists' = delete_file(upload_threads[1])
             /\ UNCHANGED <<upload_threads, azure_uploader, storage_configs>>
       /\ fileExists' # fileExists => (DeleteStep /\ upload_threads # <<>>)
      ]_vars

C21_Witness ==
    /\ pc = "idle" /\ lastOp = "delete_local_file" /\ fileExists
    /\ nCalls = 1 /\ has_storage_configured
    /\ upload_threads = <<>>
    /\ \E p \in Providers : uploaders[<<1, p>>].pc = "ctor_failed"

\* C22: when every started thread is scheduled until it ends and the caller goes
\* on when join() returns, a wait_for_uploads in progress leads to its return;
\* and the loop of wait_for_uploads never goes past a handle, nor returns, while
\* the thread of that handle is alive.
C22_WaitEventuallyReturns ==
    /\ (pc = "waiting") ~> (pc = "idle" /\ lastOp = "wait_for_uploads")
    /\ [][(pc = "waiting" /\ (waitIdx' # waitIdx \/ pc' # "waiting")) =>
             /\ ~is_alive(WaitTargets[waitIdx])
             /\ \A i \in 1..waitIdx : ~is_alive(WaitTargets[i])']_vars

C22_Witness ==
    /\ pc = "idle" /\ lastOp = "wait_for_uploads"
    /\ Len(waited) = 2 /\ waited = upload_threads
    /\ callbackKind = "raises"
    /\ \A h \in Range(waited) : uploaders[h].pc = "died"

\* C23 (as stated): the callback of one background Blob upload is invoked at
\* most once, also when it raises, and the provider is not recorded both as a
\* success and as a failure of the same upload.
C23_CallbackAtMostOnce ==
    \A k \in Calls :
        /\ BlobCallbacks(k) <= 1
        /\ ~(/\ Count(successful_uploads[k], azure_callback) >= 1
             /\ Count(failed_uploads[k], azure_callback) >= 1)

\* C24 (as stated): for every Blob config the loader has accepted, constructing
\* the uploader from it selects managed identity, the connection string or the
\* account key: _initialize_blob_service_client does not reach its ValueError.
C24_AcceptedConfigSelectsStrategy ==
    \A i \in DOMAIN storage_configs :
        storage_configs[i].provider = AZURE_BLOB =>
            AuthStrategy(storage_configs[i].config.storage_account_name,
                         storage_configs[i].config.connection_string,
                         storage_configs[i].config.account_key) # "ValueError"

====
